---- MODULE Spec2Model ----
(***************************************************************************)
(* The EIP-8082 subscription manager (core/vm/subscription_manager.go) and *)
(* the Subscription entity (core/types) as a state machine.  One action    *)
(* per SubscriptionManager method; every action is the whole method.       *)
(***************************************************************************)
EXTENDS Integers, Sequences, FiniteSets, TLC

\* ------------------------------------------------------------------ bounds
MaxSteps  == 4      \* number of manager calls in one explored history
MaxAmount == 1      \* Deposit / Withdraw amounts are 0..MaxAmount
MaxGas    == 1      \* gasLimit and gasUsed arguments are 0..MaxGas
MaxPrice  == 1      \* gasPrice arguments are 0..MaxPrice
UintBits  == 1      \* width the model gives Go's uint64 (gasLimit, gasUsed)

\* gasLimit and gasUsed are uint64 in the source. The model keeps the wrap-around
\* of unsigned subtraction at a width of UintBits bits, and draws both below UintMod.
UintMod == 2 ^ UintBits

\* ------------------------------------------------------------------ inputs
\* (target, eventSignature, subscriber) triples the calls are made with: two
\* subscribers of one event and one subscriber of another target.
Keys        == {<<"tA", "H", "s1">>, <<"tA", "H", "s2">>, <<"tB", "H", "s1">>}
\* (callback address, selector) pairs
Endpoints   == {<<"c1", <<1, 2, 3, 4>>>>, <<"c2", <<5, 6, 7, 8>>>>}
EventDatas  == {<<255>>}
Origins     == {"o1"}
Amounts     == 0 .. MaxAmount
GasValues   == {g \in 0 .. MaxGas : g < UintMod}
GasPrices   == 0 .. MaxPrice

ErrNone                == "nil"
ErrInvalidSubscription == "ErrInvalidSubscription"
ErrInsufficientDeposit == "ErrInsufficientDeposit"
SubscriptionManagerAddress == "SubscriptionManagerAddress"

\* ------------------------------------------------------------------ state
VARIABLES
  statedb,     \* the registry: [subs, index, logs]
  pre,         \* the registry as it was when the last call was made
  call,        \* the manager call that produced this state
  ret,         \* what that call returned
  steps,       \* number of calls made
  deposited,   \* per identity: sum of successful Deposit amounts
  withdrawn,   \* per identity: sum of successful Withdraw amounts
  charged,     \* per identity: sum of gasCost charged by NotifySubscribers
  refunded,    \* per identity: sum of amounts credited by RefundGas
  inRange,     \* every RefundGas so far had gasUsed <= gasLimit
  cancelled,   \* identities unsubscribed and not subscribed again since
  lastCharge   \* per identity: <<what the last notification that selected it took
               \* from its balance>>, NoCharge after a new record or new gas parameters

vars == <<statedb, pre, call, ret, steps, deposited, withdrawn, charged, refunded,
          inRange, cancelled, lastCharge>>

\* ------------------------------------------------------------------ types package
\* Keccak256 over the three fixed-width fields: injective on the model's inputs.
ComputeSubscriptionID(target, eventSig, subscriber) == <<target, eventSig, subscriber>>

Ids == {ComputeSubscriptionID(k[1], k[2], k[3]) : k \in Keys}

GasCost(s) == s.GasLimit * s.GasPrice

\* Mutant: the comparison the wrong way round.
HasSufficientDepositReversed(s) == s.DepositBalance <= GasCost(s)

HasSufficientDeposit(s) == s.DepositBalance >= GasCost(s)

\* Mutant: charges the gas limit and forgets the price.
DeductGasLimitOnly(s) ==
  IF ~HasSufficientDeposit(s)
  THEN [ok |-> FALSE, sub |-> s]
  ELSE [ok |-> TRUE, sub |-> [s EXCEPT !.DepositBalance = @ - s.GasLimit]]

\* DeductGas returns its boolean and the receiver as it leaves it.
DeductGas(s) ==
  IF ~HasSufficientDeposit(s)
  THEN [ok |-> FALSE, sub |-> s]
  ELSE [ok |-> TRUE, sub |-> [s EXCEPT !.DepositBalance = @ - GasCost(s)]]

\* Mutant: the unused gas saturates at zero instead of wrapping.
UnusedGasSaturating(s, gasUsed) == IF gasUsed > s.GasLimit THEN 0 ELSE s.GasLimit - gasUsed

\* unusedGas is a uint64 subtraction: it wraps.
UnusedGas(s, gasUsed) == (s.GasLimit - gasUsed) % UintMod

\* Mutant: credits the gas that was used instead of the gas that was not.
SubscriptionRefundGasUsed(s, gasUsed) ==
  [s EXCEPT !.DepositBalance = @ + (gasUsed % UintMod) * s.GasPrice]

\* Mutant: credits the whole gasCost back, whatever was used.
SubscriptionRefundGasFull(s, gasUsed) ==
  [s EXCEPT !.DepositBalance = @ + s.GasLimit * s.GasPrice]

SubscriptionRefundGas(s, gasUsed) ==
  [s EXCEPT !.DepositBalance = @ + UnusedGas(s, gasUsed) * s.GasPrice]

\* ------------------------------------------------------------------ registry (StateDB)
HasSubscription(db, id) == id \in DOMAIN db.subs

StateGetSubscription(db, id) == db.subs[id]

SetSubscription(db, id, sub) ==
  [db EXCEPT
     !.subs  = [x \in (DOMAIN db.subs) \cup {id} |-> IF x = id THEN sub ELSE db.subs[x]],
     !.index = IF id \in DOMAIN db.subs THEN @ ELSE Append(@, id)]

AddLog(db, log) == [db EXCEPT !.logs = Append(@, log)]

MatchingIds(db, target, eventSig) ==
  SelectSeq(db.index, LAMBDA id : /\ db.subs[id].TargetContract = target
                                  /\ db.subs[id].EventSignature = eventSig)

GetSubscribers(db, target, eventSig) ==
  LET ids == MatchingIds(db, target, eventSig)
  IN  [i \in 1 .. Len(ids) |-> db.subs[ids[i]]]

\* ------------------------------------------------------------------ log entries
BytesToHash(b) == <<"hash", b>>

CreatedLog(subID, target, subscriber, eventSig) ==
  [Address |-> SubscriptionManagerAddress,
   Topics  |-> <<BytesToHash("SubscriptionCreated"), subID,
                 BytesToHash(target), BytesToHash(subscriber)>>,
   Data    |-> eventSig]

RemovedLog(subID) ==
  [Address |-> SubscriptionManagerAddress,
   Topics  |-> <<BytesToHash("SubscriptionRemoved"), subID>>,
   Data    |-> <<>>]

InsufficientLog(subID) ==
  [Address |-> SubscriptionManagerAddress,
   Topics  |-> <<BytesToHash("InsufficientDeposit"), subID>>,
   Data    |-> <<>>]

\* ------------------------------------------------------------------ initial state
Zero == [id \in Ids |-> 0]

NoCharge == <<>>

Init ==
  /\ statedb = [subs |-> <<>>, index |-> <<>>, logs |-> <<>>]
  /\ pre = statedb
  /\ call = [op |-> "New"]
  /\ ret = <<>>
  /\ steps = 0
  /\ deposited = Zero
  /\ withdrawn = Zero
  /\ charged = Zero
  /\ refunded = Zero
  /\ inRange = TRUE
  /\ cancelled = {}
  /\ lastCharge = [id \in Ids |-> NoCharge]

\* What every call does besides its own effect.
Returns(c, r, db) ==
  /\ steps < MaxSteps
  /\ steps' = steps + 1
  /\ call' = c
  /\ ret' = r
  /\ pre' = statedb
  /\ statedb' = db

\* Mutant: takes the subscriber for the callback address and drops the argument.
NewSubscriptionSelfCallback(subID, target, eventSig, subscriber, callback, selector, gasLimit, gasPrice) ==
  [ID                 |-> subID,
   TargetContract     |-> target,
   EventSignature     |-> eventSig,
   SubscriberContract |-> subscriber,
   CallbackAddress    |-> subscriber,
   CallbackSelector   |-> selector,
   GasLimit           |-> gasLimit,
   GasPrice           |-> gasPrice,
   DepositBalance     |-> 0,
   Active             |-> TRUE]

NewSubscription(subID, target, eventSig, subscriber, callback, selector, gasLimit, gasPrice) ==
  [ID                 |-> subID,
   TargetContract     |-> target,
   EventSignature     |-> eventSig,
   SubscriberContract |-> subscriber,
   CallbackAddress    |-> callback,
   CallbackSelector   |-> selector,
   GasLimit           |-> gasLimit,
   GasPrice           |-> gasPrice,
   DepositBalance     |-> 0,
   Active             |-> TRUE]

\* ------------------------------------------------------------------ manager operations
\* Mutant: re-creates the record unless it is inactive.
SubscribeExistsInverted(db, subID) ==
  HasSubscription(db, subID) /\ ~StateGetSubscription(db, subID).Active

\* Subscribe's early return: existing != nil && existing.Active
SubscribeExists(db, subID) ==
  HasSubscription(db, subID) /\ StateGetSubscription(db, subID).Active

Subscribe(target, eventSig, subscriber, callback, selector, gasLimit, gasPrice) ==
  LET subID == ComputeSubscriptionID(target, eventSig, subscriber)
      c     == [op |-> "Subscribe", id |-> subID, callback |-> callback,
                selector |-> selector, gasLimit |-> gasLimit, gasPrice |-> gasPrice]
      sub   == NewSubscription(subID, target, eventSig, subscriber, callback, selector,
                               gasLimit, gasPrice)
  IN  /\ IF SubscribeExists(statedb, subID)
         THEN Returns(c, [id |-> subID, err |-> ErrNone], statedb)
         ELSE Returns(c, [id |-> subID, err |-> ErrNone],
                      AddLog(SetSubscription(statedb, subID, sub),
                             CreatedLog(subID, target, subscriber, eventSig)))
      /\ cancelled' = cancelled \ {subID}
      /\ lastCharge' = IF SubscribeExists(statedb, subID) THEN lastCharge
                       ELSE [lastCharge EXCEPT ![subID] = NoCharge]
      /\ UNCHANGED <<deposited, withdrawn, charged, refunded, inRange>>

\* Mutant: the cancellation without its check of the active flag.
UnsubscribeIgnoresActive(target, eventSig, subscriber) ==
  LET subID == ComputeSubscriptionID(target, eventSig, subscriber)
      c     == [op |-> "Unsubscribe", id |-> subID]
  IN  /\ IF ~HasSubscription(statedb, subID)
         THEN Returns(c, [err |-> ErrNone], statedb)
         ELSE LET sub == [StateGetSubscription(statedb, subID) EXCEPT !.Active = FALSE]
              IN  Returns(c, [err |-> ErrNone],
                          AddLog(SetSubscription(statedb, subID, sub), RemovedLog(subID)))
      /\ cancelled' = cancelled \cup {subID}
      /\ UNCHANGED <<deposited, withdrawn, charged, refunded, inRange, lastCharge>>

\* Mutant: cancels every subscription of the event, not the subscriber's alone.
UnsubscribeWholeEvent(target, eventSig, subscriber) ==
  LET subID == ComputeSubscriptionID(target, eventSig, subscriber)
      c     == [op |-> "Unsubscribe", id |-> subID]
      all   == [x \in DOMAIN statedb.subs |->
                  IF /\ statedb.subs[x].TargetContract = target
                     /\ statedb.subs[x].EventSignature = eventSig
                  THEN [statedb.subs[x] EXCEPT !.Active = FALSE]
                  ELSE statedb.subs[x]]
  IN  /\ IF ~HasSubscription(statedb, subID) \/ ~StateGetSubscription(statedb, subID).Active
         THEN Returns(c, [err |-> ErrNone], statedb)
         ELSE Returns(c, [err |-> ErrNone],
                      AddLog([statedb EXCEPT !.subs = all], RemovedLog(subID)))
      /\ cancelled' = cancelled \cup {subID}
      /\ UNCHANGED <<deposited, withdrawn, charged, refunded, inRange, lastCharge>>

\* Mutant: cancellation pays the deposit out and leaves a balance of zero.
UnsubscribeClearsDeposit(target, eventSig, subscriber) ==
  LET subID == ComputeSubscriptionID(target, eventSig, subscriber)
      c     == [op |-> "Unsubscribe", id |-> subID]
  IN  /\ IF ~HasSubscription(statedb, subID) \/ ~StateGetSubscription(statedb, subID).Active
         THEN Returns(c, [err |-> ErrNone], statedb)
         ELSE LET sub == [StateGetSubscription(statedb, subID) EXCEPT
                            !.Active = FALSE, !.DepositBalance = 0]
              IN  Returns(c, [err |-> ErrNone],
                          AddLog(SetSubscription(statedb, subID, sub), RemovedLog(subID)))
      /\ cancelled' = cancelled \cup {subID}
      /\ UNCHANGED <<deposited, withdrawn, charged, refunded, inRange, lastCharge>>

Unsubscribe(target, eventSig, subscriber) ==
  LET subID == ComputeSubscriptionID(target, eventSig, subscriber)
      c     == [op |-> "Unsubscribe", id |-> subID]
  IN  /\ IF ~HasSubscription(statedb, subID) \/ ~StateGetSubscription(statedb, subID).Active
         THEN Returns(c, [err |-> ErrNone], statedb)
         ELSE LET sub == [StateGetSubscription(statedb, subID) EXCEPT !.Active = FALSE]
              IN  Returns(c, [err |-> ErrNone],
                          AddLog(SetSubscription(statedb, subID, sub), RemovedLog(subID)))
      /\ cancelled' = cancelled \cup {subID}
      /\ UNCHANGED <<deposited, withdrawn, charged, refunded, inRange, lastCharge>>

\* Mutant: the event data comes before the selector.
CallbackExecutionDataFirst(sub, eventData, origin) ==
  [SubscriptionID    |-> sub.ID,
   SubscriberAddress |-> sub.SubscriberContract,
   CallbackAddress   |-> sub.CallbackAddress,
   CallbackData      |-> eventData \o sub.CallbackSelector,
   GasLimit          |-> sub.GasLimit,
   GasPrice          |-> sub.GasPrice,
   OriginalOrigin    |-> origin]

CallbackExecution(sub, eventData, origin) ==
  [SubscriptionID    |-> sub.ID,
   SubscriberAddress |-> sub.SubscriberContract,
   CallbackAddress   |-> sub.CallbackAddress,
   CallbackData      |-> sub.CallbackSelector \o eventData,
   GasLimit          |-> sub.GasLimit,
   GasPrice          |-> sub.GasPrice,
   OriginalOrigin    |-> origin]

\* Mutant: the deposit is checked before the active flag.
NotifyVisitChecksDepositFirst(st, sub, eventData, origin) ==
  IF ~HasSufficientDeposit(sub)
  THEN [st EXCEPT !.db = AddLog(@, InsufficientLog(sub.ID))]
  ELSE IF ~sub.Active THEN st
       ELSE LET d == DeductGas(sub)
            IN  IF ~d.ok THEN st
                ELSE [db        |-> SetSubscription(st.db, sub.ID, d.sub),
                      callbacks |-> Append(st.callbacks,
                                           CallbackExecution(d.sub, eventData, origin))]

\* Mutant: the loop without its check of the active flag.
NotifyVisitIgnoresActive(st, sub, eventData, origin) ==
  IF ~HasSufficientDeposit(sub)
  THEN [st EXCEPT !.db = AddLog(@, InsufficientLog(sub.ID))]
  ELSE LET d == DeductGas(sub)
       IN  IF ~d.ok THEN st
           ELSE [db        |-> SetSubscription(st.db, sub.ID, d.sub),
                 callbacks |-> Append(st.callbacks,
                                      CallbackExecution(d.sub, eventData, origin))]

\* Mutant: a subscription that cannot pay is cancelled on the spot.
NotifyVisitCancels(st, sub, eventData, origin) ==
  IF ~sub.Active THEN st
  ELSE IF ~HasSufficientDeposit(sub)
       THEN [st EXCEPT !.db = AddLog(SetSubscription(@, sub.ID, [sub EXCEPT !.Active = FALSE]),
                                     InsufficientLog(sub.ID))]
       ELSE LET d == DeductGas(sub)
            IN  IF ~d.ok THEN st
                ELSE [db        |-> SetSubscription(st.db, sub.ID, d.sub),
                      callbacks |-> Append(st.callbacks,
                                           CallbackExecution(d.sub, eventData, origin))]

\* One iteration of the loop over the subscribers fetched before the loop;
\* st is [db, callbacks].
NotifyVisit(st, sub, eventData, origin) ==
  IF ~sub.Active THEN st
  ELSE IF ~HasSufficientDeposit(sub)
       THEN [st EXCEPT !.db = AddLog(@, InsufficientLog(sub.ID))]
       ELSE LET d == DeductGas(sub)
            IN  IF ~d.ok THEN st
                ELSE [db        |-> SetSubscription(st.db, sub.ID, d.sub),
                      callbacks |-> Append(st.callbacks,
                                           CallbackExecution(d.sub, eventData, origin))]

\* Mutant: the loop runs over the subscribers from the last to the first.
RECURSIVE NotifyLoopReversed(_, _, _, _, _)
NotifyLoopReversed(st, subscribers, i, eventData, origin) ==
  IF i > Len(subscribers) THEN st
  ELSE NotifyLoopReversed(NotifyVisit(st, subscribers[Len(subscribers) + 1 - i],
                                      eventData, origin),
                          subscribers, i + 1, eventData, origin)

RECURSIVE NotifyLoop(_, _, _, _, _)
NotifyLoop(st, subscribers, i, eventData, origin) ==
  IF i > Len(subscribers) THEN st
  ELSE NotifyLoop(NotifyVisit(st, subscribers[i], eventData, origin),
                  subscribers, i + 1, eventData, origin)

RECURSIVE SumCost(_, _, _)
SumCost(callbacks, id, i) ==
  IF i > Len(callbacks) THEN 0
  ELSE (IF callbacks[i].SubscriptionID = id
        THEN callbacks[i].GasLimit * callbacks[i].GasPrice ELSE 0)
       + SumCost(callbacks, id, i + 1)

NotifySubscribers(target, eventSig, eventData, origin) ==
  LET subscribers == GetSubscribers(statedb, target, eventSig)
      st == NotifyLoop([db |-> statedb, callbacks |-> <<>>], subscribers, 1, eventData, origin)
      c  == [op |-> "NotifySubscribers", target |-> target, eventSig |-> eventSig,
             eventData |-> eventData, origin |-> origin]
  IN  /\ Returns(c, [callbacks |-> st.callbacks], st.db)
      /\ charged' = [id \in Ids |-> charged[id] + SumCost(st.callbacks, id, 1)]
      /\ lastCharge' =
           [id \in Ids |->
              IF \E i \in 1 .. Len(st.callbacks) : st.callbacks[i].SubscriptionID = id
              THEN <<statedb.subs[id].DepositBalance - st.db.subs[id].DepositBalance>>
              ELSE lastCharge[id]]
      /\ UNCHANGED <<deposited, withdrawn, refunded, inRange, cancelled>>

\* Mutant: a missing record is a silent no-op, as it is in RefundGas.
DepositIgnoresMissing(subID, amount) ==
  LET c == [op |-> "Deposit", id |-> subID, amount |-> amount]
  IN  IF ~HasSubscription(statedb, subID)
      THEN /\ Returns(c, [err |-> ErrNone], statedb)
           /\ UNCHANGED <<deposited, withdrawn, charged, refunded, inRange, cancelled, lastCharge>>
      ELSE LET sub == [StateGetSubscription(statedb, subID) EXCEPT !.DepositBalance = @ + amount]
           IN  /\ Returns(c, [err |-> ErrNone], SetSubscription(statedb, subID, sub))
               /\ deposited' = [deposited EXCEPT ![subID] = @ + amount]
               /\ UNCHANGED <<withdrawn, charged, refunded, inRange, cancelled, lastCharge>>

Deposit(subID, amount) ==
  LET c == [op |-> "Deposit", id |-> subID, amount |-> amount]
  IN  IF ~HasSubscription(statedb, subID)
      THEN /\ Returns(c, [err |-> ErrInvalidSubscription], statedb)
           /\ UNCHANGED <<deposited, withdrawn, charged, refunded, inRange, cancelled, lastCharge>>
      ELSE LET sub == [StateGetSubscription(statedb, subID) EXCEPT !.DepositBalance = @ + amount]
           IN  /\ Returns(c, [err |-> ErrNone], SetSubscription(statedb, subID, sub))
               /\ deposited' = [deposited EXCEPT ![subID] = @ + amount]
               /\ UNCHANGED <<withdrawn, charged, refunded, inRange, cancelled, lastCharge>>

\* Mutant: refuses to withdraw the whole balance.
WithdrawShortOffByOne(sub, amount) == sub.DepositBalance <= amount

\* Withdraw's check: sub.DepositBalance.Cmp(amount) < 0
WithdrawShort(sub, amount) == sub.DepositBalance < amount

Withdraw(subID, amount) ==
  LET c == [op |-> "Withdraw", id |-> subID, amount |-> amount]
  IN  IF ~HasSubscription(statedb, subID)
      THEN /\ Returns(c, [err |-> ErrInvalidSubscription], statedb)
           /\ UNCHANGED <<deposited, withdrawn, charged, refunded, inRange, cancelled, lastCharge>>
      ELSE IF WithdrawShort(StateGetSubscription(statedb, subID), amount)
      THEN /\ Returns(c, [err |-> ErrInsufficientDeposit], statedb)
           /\ UNCHANGED <<deposited, withdrawn, charged, refunded, inRange, cancelled, lastCharge>>
      ELSE LET sub == [StateGetSubscription(statedb, subID) EXCEPT !.DepositBalance = @ - amount]
           IN  /\ Returns(c, [err |-> ErrNone], SetSubscription(statedb, subID, sub))
               /\ withdrawn' = [withdrawn EXCEPT ![subID] = @ + amount]
               /\ UNCHANGED <<deposited, charged, refunded, inRange, cancelled, lastCharge>>

GetBalance(subID) ==
  LET c == [op |-> "GetBalance", id |-> subID]
  IN  /\ IF ~HasSubscription(statedb, subID)
         THEN Returns(c, [balance |-> 0], statedb)
         ELSE Returns(c, [balance |-> StateGetSubscription(statedb, subID).DepositBalance],
                      statedb)
      /\ UNCHANGED <<deposited, withdrawn, charged, refunded, inRange, cancelled, lastCharge>>

\* The result is the record wrapped in a sequence, empty for a nil pointer.
GetSubscription(subID) ==
  LET c == [op |-> "GetSubscription", id |-> subID]
  IN  /\ IF ~HasSubscription(statedb, subID)
         THEN Returns(c, [sub |-> <<>>], statedb)
         ELSE Returns(c, [sub |-> <<StateGetSubscription(statedb, subID)>>], statedb)
      /\ UNCHANGED <<deposited, withdrawn, charged, refunded, inRange, cancelled, lastCharge>>

RefundGas(subID, gasUsed) ==
  LET c == [op |-> "RefundGas", id |-> subID, gasUsed |-> gasUsed]
  IN  IF ~HasSubscription(statedb, subID)
      THEN /\ Returns(c, <<>>, statedb)
           /\ UNCHANGED <<deposited, withdrawn, charged, refunded, inRange, cancelled, lastCharge>>
      ELSE LET old == StateGetSubscription(statedb, subID)
               sub == SubscriptionRefundGas(old, gasUsed)
           IN  /\ Returns(c, <<>>, SetSubscription(statedb, subID, sub))
               /\ refunded' = [refunded EXCEPT
                                 ![subID] = @ + UnusedGas(old, gasUsed) * old.GasPrice]
               /\ inRange' = (inRange /\ gasUsed <= old.GasLimit)
               /\ UNCHANGED <<deposited, withdrawn, charged, cancelled, lastCharge>>

\* Mutant: the update without its check of the active flag.
UpdateSubscriptionIgnoresActive(subID, gasLimit, gasPrice) ==
  LET c == [op |-> "UpdateSubscription", id |-> subID, gasLimit |-> gasLimit,
            gasPrice |-> gasPrice]
  IN  /\ IF ~HasSubscription(statedb, subID)
         THEN Returns(c, [err |-> ErrInvalidSubscription], statedb)
         ELSE LET sub == [StateGetSubscription(statedb, subID) EXCEPT
                            !.GasLimit = gasLimit, !.GasPrice = gasPrice]
              IN  Returns(c, [err |-> ErrNone], SetSubscription(statedb, subID, sub))
      /\ lastCharge' = IF ~HasSubscription(statedb, subID) THEN lastCharge
                       ELSE [lastCharge EXCEPT ![subID] = NoCharge]
      /\ UNCHANGED <<deposited, withdrawn, charged, refunded, inRange, cancelled>>

UpdateSubscription(subID, gasLimit, gasPrice) ==
  LET c == [op |-> "UpdateSubscription", id |-> subID, gasLimit |-> gasLimit,
            gasPrice |-> gasPrice]
  IN  /\ IF ~HasSubscription(statedb, subID) \/ ~StateGetSubscription(statedb, subID).Active
         THEN Returns(c, [err |-> ErrInvalidSubscription], statedb)
         ELSE LET sub == [StateGetSubscription(statedb, subID) EXCEPT
                            !.GasLimit = gasLimit, !.GasPrice = gasPrice]
              IN  Returns(c, [err |-> ErrNone], SetSubscription(statedb, subID, sub))
      /\ lastCharge' =
           IF ~HasSubscription(statedb, subID) \/ ~StateGetSubscription(statedb, subID).Active
           THEN lastCharge
           ELSE [lastCharge EXCEPT ![subID] = NoCharge]
      /\ UNCHANGED <<deposited, withdrawn, charged, refunded, inRange, cancelled>>

\* ------------------------------------------------------------------ specification
Next ==
  \/ \E k \in Keys, ep \in Endpoints, gl \in GasValues, gp \in GasPrices :
        Subscribe(k[1], k[2], k[3], ep[1], ep[2], gl, gp)
  \/ \E k \in Keys : Unsubscribe(k[1], k[2], k[3])
  \/ \E k \in Keys, data \in EventDatas, o \in Origins :
        NotifySubscribers(k[1], k[2], data, o)
  \/ \E id \in Ids, a \in Amounts : Deposit(id, a)
  \/ \E id \in Ids, a \in Amounts : Withdraw(id, a)
  \/ \E id \in Ids : GetBalance(id)
  \/ \E id \in Ids : GetSubscription(id)
  \/ \E id \in Ids, gu \in GasValues : RefundGas(id, gu)
  \/ \E id \in Ids, gl \in GasValues, gp \in GasPrices : UpdateSubscription(id, gl, gp)

Spec == Init /\ [][Next]_vars

\* ------------------------------------------------------------------ reading a state
Stored(db)      == DOMAIN db.subs
Balance(db, id) == db.subs[id].DepositBalance

RegState(db, id) ==
  IF ~HasSubscription(db, id) THEN "Unregistered"
  ELSE IF db.subs[id].Active THEN "Active" ELSE "Inactive"

\* The log entries of one kind that name one identity.
LogsOf(db, kind, id) ==
  SelectSeq(db.logs, LAMBDA l : l.Topics[1] = BytesToHash(kind) /\ l.Topics[2] = id)

Selected(id) == \E i \in 1 .. Len(ret.callbacks) : ret.callbacks[i].SubscriptionID = id

\* ------------------------------------------------------------------ claims

\* C1: value is never lost. While every RefundGas had gasUsed <= gasLimit (amounts
\* are non-negative by construction), every stored balance equals deposits minus
\* withdrawals minus notification charges plus refunds over the identity's history.
C1_ValueNeverLost ==
  inRange =>
    \A id \in Stored(statedb) :
      Balance(statedb, id) = deposited[id] - withdrawn[id] - charged[id] + refunded[id]

\* C2: value is never fabricated. Under the same conditions every stored balance
\* is at most deposits minus withdrawals, and refunds never exceed charges.
C2_ValueNeverFabricated ==
  inRange =>
    \A id \in Stored(statedb) :
      /\ Balance(statedb, id) <= deposited[id] - withdrawn[id]
      /\ refunded[id] <= charged[id]

\* C3: every stored subscription has depositBalance >= 0 in every reachable state
\* (whatever gasUsed the refunds were given).
C3_BalanceNonNegative ==
  \A id \in Stored(statedb) : Balance(statedb, id) >= 0

\* C3 witness: a notification charged a positive cost and left a balance of exactly 0.
C3_Witness ==
  /\ call.op = "NotifySubscribers"
  /\ \E id \in Stored(statedb) :
       /\ Selected(id)
       /\ Balance(pre, id) > 0
       /\ Balance(statedb, id) = 0

\* C4: on an identity that has a record, Withdraw succeeds iff amount <= balance;
\* on success the balance drops by amount; on failure the error is
\* InsufficientDeposit and the registry is as it was.
C4_WithdrawSafety ==
  (call.op = "Withdraw" /\ HasSubscription(pre, call.id)) =>
    LET old == pre.subs[call.id]
    IN  /\ (ret.err = ErrNone) <=> (call.amount <= old.DepositBalance)
        /\ ret.err = ErrNone =>
             statedb.subs[call.id] =
               [old EXCEPT !.DepositBalance = old.DepositBalance - call.amount]
        /\ ret.err # ErrNone =>
             /\ ret.err = ErrInsufficientDeposit
             /\ statedb = pre

\* C4 witness: the whole of a positive balance withdrawn from an inactive record.
C4_Witness ==
  /\ call.op = "Withdraw"
  /\ HasSubscription(pre, call.id)
  /\ ~pre.subs[call.id].Active
  /\ call.amount > 0
  /\ ret.err = ErrNone
  /\ call.amount = Balance(pre, call.id)

\* C5: NotifySubscribers returns a callback only for a subscription that was active
\* and had balance >= gasLimit * gasPrice when visited, and each selected
\* subscription's persisted balance is its old balance minus gasLimit * gasPrice.
C5_NotificationSelection ==
  call.op = "NotifySubscribers" =>
    \A i \in 1 .. Len(ret.callbacks) :
      LET id == ret.callbacks[i].SubscriptionID
      IN  /\ HasSubscription(pre, id)
          /\ pre.subs[id].Active
          /\ Balance(pre, id) >= pre.subs[id].GasLimit * pre.subs[id].GasPrice
          /\ Balance(statedb, id) =
               Balance(pre, id) - pre.subs[id].GasLimit * pre.subs[id].GasPrice

\* C5 witness: a notification selected a subscription at a positive cost and
\* passed over another subscription of the same event.
C5_Witness ==
  /\ call.op = "NotifySubscribers"
  /\ \E id \in Stored(pre) :
       /\ Selected(id)
       /\ GasCost(pre.subs[id]) > 0
  /\ \E id \in Stored(pre) :
       /\ pre.subs[id].TargetContract = call.target
       /\ pre.subs[id].EventSignature = call.eventSig
       /\ ~Selected(id)

\* C6: Subscribe on an active record returns the identity, changes nothing and logs
\* nothing, whatever arguments it is given; Subscribe on a fresh identity returns
\* the identity and leaves balance 0 and exactly one "created" entry. Together: two
\* successive Subscribe calls on a fresh identity give one entry and balance 0.
C6_SubscribeIdempotent ==
  call.op = "Subscribe" =>
    /\ ret.id = call.id
    /\ ret.err = ErrNone
    /\ RegState(pre, call.id) = "Active" => statedb = pre
    /\ RegState(pre, call.id) = "Unregistered" =>
         /\ Balance(statedb, call.id) = 0
         /\ Len(LogsOf(statedb, "SubscriptionCreated", call.id)) = 1

\* C6 witness: the second of two Subscribe calls in a row on a fresh identity, given
\* other arguments than the stored record has.
C6_Witness ==
  /\ call.op = "Subscribe"
  /\ steps = 2
  /\ RegState(pre, call.id) = "Active"
  /\ Len(pre.logs) = 1
  /\ call.callback # pre.subs[call.id].CallbackAddress
  /\ call.selector # pre.subs[call.id].CallbackSelector
  /\ call.gasLimit # pre.subs[call.id].GasLimit
  /\ call.gasPrice # pre.subs[call.id].GasPrice

\* C7: between an Unsubscribe of an identity and the next Subscribe of it, no
\* NotifySubscribers returns a callback for it or changes its balance.
C7_PostUnsubscribeExclusion ==
  call.op = "NotifySubscribers" =>
    \A id \in cancelled :
      /\ ~Selected(id)
      /\ HasSubscription(pre, id) => Balance(statedb, id) = Balance(pre, id)

\* C7 witness: a notification for the event of a cancelled subscription that could
\* have paid a positive cost.
C7_Witness ==
  /\ call.op = "NotifySubscribers"
  /\ \E id \in cancelled :
       /\ HasSubscription(pre, id)
       /\ pre.subs[id].TargetContract = call.target
       /\ pre.subs[id].EventSignature = call.eventSig
       /\ GasCost(pre.subs[id]) > 0
       /\ Balance(pre, id) >= GasCost(pre.subs[id])

\* C8: RefundGas with gasUsed <= gasLimit on an identity that has a record adds
\* exactly (gasLimit - gasUsed) * gasPrice to the balance and changes nothing else.
C8_RefundExactness ==
  (/\ call.op = "RefundGas"
   /\ HasSubscription(pre, call.id)
   /\ call.gasUsed <= pre.subs[call.id].GasLimit) =>
    LET old == pre.subs[call.id]
    IN  statedb.subs[call.id] =
          [old EXCEPT !.DepositBalance =
             old.DepositBalance + (old.GasLimit - call.gasUsed) * old.GasPrice]

\* C8 witness: a refund of a positive amount to an inactive record.
C8_Witness ==
  /\ call.op = "RefundGas"
  /\ HasSubscription(pre, call.id)
  /\ ~pre.subs[call.id].Active
  /\ call.gasUsed < pre.subs[call.id].GasLimit
  /\ pre.subs[call.id].GasPrice > 0

\* C9: on an identity without a record (no Subscribe was ever made for it) Deposit,
\* Withdraw and UpdateSubscription fail with InvalidSubscription and GetBalance
\* returns 0; the registry, records and log, is unchanged.
C9_InvalidIdentity ==
  (call.op \in {"Deposit", "Withdraw", "UpdateSubscription", "GetBalance"}
     /\ ~HasSubscription(pre, call.id)) =>
    /\ statedb = pre
    /\ call.op = "GetBalance" => ret = [balance |-> 0]
    /\ call.op # "GetBalance" => ret = [err |-> ErrInvalidSubscription]

\* C9 witness: a Deposit of a positive amount on an unknown identity while another
\* identity is registered.
C9_Witness ==
  /\ call.op = "Deposit"
  /\ call.amount > 0
  /\ ~HasSubscription(pre, call.id)
  /\ Stored(pre) # {}

\* C10: the registration state of an identity changes only Unregistered -> Active
\* and Inactive -> Active by Subscribe of it, and Active -> Inactive by Unsubscribe
\* of it; a record never disappears.
C10_RegistrationTransitions ==
  \A id \in Ids :
    LET a == RegState(pre, id)
        b == RegState(statedb, id)
    IN  a # b =>
          \/ a = "Unregistered" /\ b = "Active" /\ call.op = "Subscribe" /\ call.id = id
          \/ a = "Active" /\ b = "Inactive" /\ call.op = "Unsubscribe" /\ call.id = id
          \/ a = "Inactive" /\ b = "Active" /\ call.op = "Subscribe" /\ call.id = id

\* C10 witness: a cancelled identity is subscribed again.
C10_Witness ==
  \E id \in Ids : RegState(pre, id) = "Inactive" /\ RegState(statedb, id) = "Active"

\* ------------------------------------------------------------------ claims, continued

\* The identities of a sequence of callbacks, in its order.
CallbackIds(callbacks) == [i \in 1 .. Len(callbacks) |-> callbacks[i].SubscriptionID]

\* The identities the entries of a sequence of logs name, in its order.
LogIds(logs) == [i \in 1 .. Len(logs) |-> logs[i].Topics[2]]

\* An active record that can pay for one callback.
Eligible(db, id) ==
  /\ db.subs[id].Active
  /\ db.subs[id].DepositBalance >= db.subs[id].GasLimit * db.subs[id].GasPrice

\* An active record that cannot.
Unfunded(db, id) ==
  /\ db.subs[id].Active
  /\ db.subs[id].DepositBalance < db.subs[id].GasLimit * db.subs[id].GasPrice

\* C11: NotifySubscribers is determined by the registry and its arguments, and keeps
\* the registry's order: the identities of the returned callbacks are exactly the
\* eligible identities of the enumeration for (target, eventSignature), in the
\* enumeration's order, and the log grows by the entries for the unfunded ones, in
\* that order too.
C11_NotifyOrderPreserving ==
  call.op = "NotifySubscribers" =>
    LET enum == MatchingIds(pre, call.target, call.eventSig)
    IN  /\ CallbackIds(ret.callbacks) = SelectSeq(enum, LAMBDA id : Eligible(pre, id))
        /\ Len(statedb.logs) >= Len(pre.logs)
        /\ SubSeq(statedb.logs, 1, Len(pre.logs)) = pre.logs
        /\ LogIds(SubSeq(statedb.logs, Len(pre.logs) + 1, Len(statedb.logs)))
             = SelectSeq(enum, LAMBDA id : Unfunded(pre, id))
        /\ statedb.index = pre.index

\* C11 witness: two callbacks returned, for the second subscriber first because it
\* was the first to subscribe.
C11_Witness ==
  /\ call.op = "NotifySubscribers"
  /\ Len(ret.callbacks) = 2
  /\ ret.callbacks[1].SubscriberAddress = "s2"
  /\ ret.callbacks[2].SubscriberAddress = "s1"

\* C12: Unsubscribe on an active subscription clears the active flag, appends one
\* "removed" entry naming the identity and changes nothing else, the balance
\* included; the balance of an inactive record can still be withdrawn.
C12_UnsubscribeFrame ==
  /\ (call.op = "Unsubscribe" /\ RegState(pre, call.id) = "Active") =>
       /\ ret.err = ErrNone
       /\ statedb.subs = [pre.subs EXCEPT ![call.id].Active = FALSE]
       /\ statedb.logs = Append(pre.logs, RemovedLog(call.id))
       /\ statedb.index = pre.index
  /\ (/\ call.op = "Withdraw"
      /\ RegState(pre, call.id) = "Inactive"
      /\ call.amount <= Balance(pre, call.id)) =>
       /\ ret.err = ErrNone
       /\ Balance(statedb, call.id) = Balance(pre, call.id) - call.amount

\* C12 witness: a subscription with a positive balance is cancelled.
C12_Witness ==
  /\ call.op = "Unsubscribe"
  /\ RegState(pre, call.id) = "Active"
  /\ Balance(pre, call.id) > 0

\* C13: Subscribe on an identity whose record is absent or inactive stores a fresh
\* record with the given callback, selector, gasLimit and gasPrice, balance 0 and
\* active, and appends one "created" entry; an inactive record is replaced whole and
\* what was left of its balance is gone.
C13_SubscribeFresh ==
  (call.op = "Subscribe" /\ RegState(pre, call.id) # "Active") =>
    /\ statedb.subs[call.id] =
         [ID                 |-> call.id,
          TargetContract     |-> call.id[1],
          EventSignature     |-> call.id[2],
          SubscriberContract |-> call.id[3],
          CallbackAddress    |-> call.callback,
          CallbackSelector   |-> call.selector,
          GasLimit           |-> call.gasLimit,
          GasPrice           |-> call.gasPrice,
          DepositBalance     |-> 0,
          Active             |-> TRUE]
    /\ statedb.logs =
         Append(pre.logs, CreatedLog(call.id, call.id[1], call.id[3], call.id[2]))

\* C13 witness: a cancelled identity with a positive balance is subscribed again.
C13_Witness ==
  /\ call.op = "Subscribe"
  /\ RegState(pre, call.id) = "Inactive"
  /\ Balance(pre, call.id) > 0
  /\ call.callback # pre.subs[call.id].CallbackAddress

\* C14: UpdateSubscription fails with InvalidSubscription and changes nothing when
\* the record is unknown or inactive; otherwise it overwrites gasLimit and gasPrice
\* alone and appends no log.
C14_UpdateSubscription ==
  call.op = "UpdateSubscription" =>
    IF RegState(pre, call.id) # "Active"
    THEN /\ ret.err = ErrInvalidSubscription
         /\ statedb = pre
    ELSE /\ ret.err = ErrNone
         /\ statedb = [pre EXCEPT !.subs[call.id].GasLimit = call.gasLimit,
                                  !.subs[call.id].GasPrice = call.gasPrice]

\* C14 witness: an update of an inactive record to other values than it holds.
C14_Witness ==
  /\ call.op = "UpdateSubscription"
  /\ RegState(pre, call.id) = "Inactive"
  /\ call.gasLimit # pre.subs[call.id].GasLimit
  /\ call.gasPrice # pre.subs[call.id].GasPrice

\* C15: Unsubscribe on an identity with no record or an inactive record, and
\* RefundGas on an identity with no record, report no error and leave the registry,
\* records and log, as it was.
C15_SilentNoOps ==
  /\ (call.op = "Unsubscribe" /\ RegState(pre, call.id) # "Active") =>
       /\ ret.err = ErrNone
       /\ statedb = pre
  /\ (call.op = "RefundGas" /\ ~HasSubscription(pre, call.id)) =>
       /\ ret = <<>>
       /\ statedb = pre

\* C15 witness: an inactive record is unsubscribed once more.
C15_Witness ==
  /\ call.op = "Unsubscribe"
  /\ RegState(pre, call.id) = "Inactive"

\* The log entries that name one identity, of whatever kind.
LogsNaming(db, id) == SelectSeq(db.logs, LAMBDA l : l.Topics[2] = id)

\* C16: in NotifySubscribers every enumerated active subscription whose balance is
\* below its gasCost gets exactly one "insufficient deposit" entry naming it, keeps
\* its record and gets no callback; every enumerated inactive subscription gets no
\* entry, keeps its record and gets no callback; nothing else is logged.
C16_NotifySkips ==
  call.op = "NotifySubscribers" =>
    /\ \A i \in 1 .. Len(MatchingIds(pre, call.target, call.eventSig)) :
         LET id == MatchingIds(pre, call.target, call.eventSig)[i]
         IN  /\ Unfunded(pre, id) =>
                  /\ Len(LogsOf(statedb, "InsufficientDeposit", id))
                       = Len(LogsOf(pre, "InsufficientDeposit", id)) + 1
                  /\ Len(LogsNaming(statedb, id)) = Len(LogsNaming(pre, id)) + 1
                  /\ statedb.subs[id] = pre.subs[id]
                  /\ ~Selected(id)
             /\ ~pre.subs[id].Active =>
                  /\ LogsNaming(statedb, id) = LogsNaming(pre, id)
                  /\ statedb.subs[id] = pre.subs[id]
                  /\ ~Selected(id)
    /\ \A j \in (Len(pre.logs) + 1) .. Len(statedb.logs) :
         statedb.logs[j] = InsufficientLog(statedb.logs[j].Topics[2])

\* C16 witness: a notification that meets an unfunded active subscription and an
\* inactive one that is short of its gasCost too.
C16_Witness ==
  /\ call.op = "NotifySubscribers"
  /\ \E a, b \in Stored(pre) :
       /\ pre.subs[a].TargetContract = call.target
       /\ pre.subs[b].TargetContract = call.target
       /\ Unfunded(pre, a)
       /\ ~pre.subs[b].Active
       /\ Balance(pre, b) < GasCost(pre.subs[b])

\* C17: for every enumerated subscription that is active and can pay, the result
\* holds exactly one callback with its identity, and that callback carries its
\* subscriber, callback address, gasLimit and gasPrice, the given origin and the
\* selector followed by the event data; its balance drops by gasCost, once.
C17_NotifyComplete ==
  call.op = "NotifySubscribers" =>
    \A k \in 1 .. Len(MatchingIds(pre, call.target, call.eventSig)) :
      LET id  == MatchingIds(pre, call.target, call.eventSig)[k]
          old == pre.subs[id]
          at  == {i \in 1 .. Len(ret.callbacks) : ret.callbacks[i].SubscriptionID = id}
      IN  Eligible(pre, id) =>
            /\ Cardinality(at) = 1
            /\ \A i \in at :
                 ret.callbacks[i] =
                   [SubscriptionID    |-> id,
                    SubscriberAddress |-> old.SubscriberContract,
                    CallbackAddress   |-> old.CallbackAddress,
                    CallbackData      |-> old.CallbackSelector \o call.eventData,
                    GasLimit          |-> old.GasLimit,
                    GasPrice          |-> old.GasPrice,
                    OriginalOrigin    |-> call.origin]
            /\ statedb.subs[id] =
                 [old EXCEPT !.DepositBalance = @ - old.GasLimit * old.GasPrice]

\* C17 witness: a notification with event data charges a positive cost.
C17_Witness ==
  /\ call.op = "NotifySubscribers"
  /\ Len(call.eventData) > 0
  /\ \E id \in Stored(pre) :
       /\ pre.subs[id].TargetContract = call.target
       /\ Eligible(pre, id)
       /\ GasCost(pre.subs[id]) > 0

\* C18: RefundGas with gasUsed > gasLimit neither fails nor saturates: the unused
\* gas wraps at the width of the unsigned type (UintMod here, 2^64 in the source)
\* and the balance is credited the wrapped value times gasPrice.
C18_RefundWraps ==
  (/\ call.op = "RefundGas"
   /\ HasSubscription(pre, call.id)
   /\ call.gasUsed > pre.subs[call.id].GasLimit) =>
    LET old == pre.subs[call.id]
    IN  /\ ret = <<>>
        /\ statedb.subs[call.id] =
             [old EXCEPT !.DepositBalance =
                @ + (UintMod - (call.gasUsed - old.GasLimit)) * old.GasPrice]

\* C18 witness: a refund of more gas than the limit at a positive price.
C18_Witness ==
  /\ call.op = "RefundGas"
  /\ HasSubscription(pre, call.id)
  /\ call.gasUsed > pre.subs[call.id].GasLimit
  /\ pre.subs[call.id].GasPrice > 0
  /\ Balance(statedb, call.id) > Balance(pre, call.id)

\* C19: a charge and the refund that follows it. When NotifySubscribers selected an
\* identity and no new record or new gas parameters came since, RefundGas with
\* gasUsed <= gasLimit leaves the balance, over the two calls, lower by exactly
\* gasUsed * gasPrice: gasUsed 0 gives the charge back, gasUsed = gasLimit nothing.
C19_ChargeRefundPairing ==
  (/\ call.op = "RefundGas"
   /\ HasSubscription(pre, call.id)
   /\ lastCharge[call.id] # NoCharge
   /\ call.gasUsed <= pre.subs[call.id].GasLimit) =>
    (Balance(statedb, call.id) - Balance(pre, call.id)) - lastCharge[call.id][1]
      = 0 - call.gasUsed * pre.subs[call.id].GasPrice

\* C19 witness: a refund of unused gas right after a notification that charged a
\* positive cost.
C19_Witness ==
  /\ call.op = "RefundGas"
  /\ HasSubscription(pre, call.id)
  /\ lastCharge[call.id] # NoCharge
  /\ lastCharge[call.id][1] > 0
  /\ call.gasUsed < pre.subs[call.id].GasLimit
  /\ charged[call.id] > 0

\* The calls that are addressed to one identity.
Addressed == {"Subscribe", "Unsubscribe", "Deposit", "Withdraw", "RefundGas",
              "UpdateSubscription"}

\* C20: a call addressed to one identity leaves the record of every other identity
\* as it was and creates no other record; NotifySubscribers changes only records
\* enumerated for its (target, eventSignature) and creates none; GetBalance and
\* GetSubscription leave the registry, records and log, as it was.
C20_Isolation ==
  /\ call.op \in Addressed =>
       /\ Stored(statedb) \subseteq Stored(pre) \cup {call.id}
       /\ \A id \in Stored(pre) \ {call.id} : statedb.subs[id] = pre.subs[id]
  /\ call.op = "NotifySubscribers" =>
       /\ Stored(statedb) = Stored(pre)
       /\ \A id \in Stored(pre) :
            ~(/\ pre.subs[id].TargetContract = call.target
              /\ pre.subs[id].EventSignature = call.eventSig)
              => statedb.subs[id] = pre.subs[id]
  /\ call.op \in {"GetBalance", "GetSubscription"} => statedb = pre

\* C20 witness: one subscriber of an event is cancelled while the other subscriber
\* of the same event is active.
C20_Witness ==
  /\ call.op = "Unsubscribe"
  /\ RegState(pre, call.id) = "Active"
  /\ \E id \in Stored(pre) \ {call.id} :
       /\ pre.subs[id].TargetContract = call.id[1]
       /\ pre.subs[id].EventSignature = call.id[2]
       /\ pre.subs[id].Active
====
